---- MODULE Spec2Model ----
(***************************************************************************)
(* GreenPiThumb: the polling engine of greenpithumb/poller.py              *)
(* (SensorPollerBase and its six pollers), the entry point of              *)
(* greenpithumb/greenpithumb.py, and the collaborators the pollers call    *)
(* (sensors, stores, pump manager, clock).                                 *)
(*                                                                         *)
(* A polling thread is created by start_polling_async() and runs _poll():  *)
(*     while not self._closed.is_set():     pc = "test"                    *)
(*         self._poll_once()                pc = "read", "pump", "insert"  *)
(*         self._local_clock.wait(...)      pc = "wait"                    *)
(*     self._close_db_stores()              pc = "cleanup"                 *)
(*     (returns)                            pc = "stopped"                 *)
(* An exception that leaves _poll_once() is caught nowhere: it ends the    *)
(* thread (pc = "dead").                                                   *)
(*                                                                         *)
(* The pollers see a store as the records it holds (tables).  The stores   *)
(* themselves, greenpithumb/db_store.py, are modelled below the pollers:   *)
(* insert() as its two statements on the shared SQLite connection (execute *)
(* and commit), get() with the conversions of timestamps and values.       *)
(***************************************************************************)
EXTENDS Integers, Sequences, FiniteSets, TLC

VARIABLES
    built,      \* the pollers that were constructed (by kind)
    closed,     \* closed[p]: SensorPollerBase._closed of poller p is set
    thr,        \* thr[t]: polling thread t (its position in _poll and locals)
    tables,     \* tables[n]: the records of table n, in insertion order
    closes,     \* closes[p]: how many times each store of p was closed
    begun,      \* how many iterations (_poll_once calls) have begun
    now,        \* what local_clock.now() returns (time passes in wait())
    mainPc,     \* position of greenpithumb.main
    rows,       \* rows[n]: the rows of table n as the shared connection sees them
    durable,    \* durable[n]: how many rows of table n are committed
    call,       \* call[c]: the insert() call of caller c (in flight or returned)
    got,        \* what the last call of get_latest() gave its caller
    reading,    \* what self._dht11.read() gives HumiditySensor
    level       \* how the call of get_humidity_level() ended

\* the state of the pollers: the stores are seen as the records they hold
pollvars == <<built, closed, thr, tables, closes, begun, now, mainPc>>

\* the state of the database layer (db_store.py): one SQLite connection
\* that all stores share
dbvars == <<rows, durable, call, got>>

\* the state of the humidity sensor (humidity_sensor.py)
dhtvars == <<reading, level>>

vars == <<built, closed, thr, tables, closes, begun, now, mainPc,
          rows, durable, call, got, reading, level>>

----------------------------------------------------------------------------
(* Bounds of the model *)

\* polling threads created in one run (all pollers together)
MaxThreads == 2
\* iterations (_poll_once calls) begun in one run (all threads together)
MaxIters == 2
\* insert() calls made on the stores of one connection
MaxInserts == 2
\* the largest error code a DHT11 result carries
MaxErrorCode == 4

----------------------------------------------------------------------------
(* Program constants *)

\* the poller classes of poller.py
Kinds == {"temperature", "humidity", "moisture", "light", "watering", "camera"}

\* the pollers that poll a sensor and insert its reading
SensorKinds == {"temperature", "humidity", "moisture", "light"}

\* the tables of _CREATE_TABLE_COMMANDS
Tables ==
    {"temperature", "ambient_humidity", "soil_moisture", "ambient_light",
     "watering_events"}

\* the table behind the store a poller inserts into
StoreOf(p) ==
    CASE p = "temperature" -> "temperature"
      [] p = "humidity"    -> "ambient_humidity"
      [] p = "moisture"    -> "soil_moisture"
      [] p = "light"       -> "ambient_light"
      [] p = "watering"    -> "watering_events"

\* the tables behind the stores that _close_db_stores() of poller p closes
StoresOf(p) ==
    CASE p \in SensorKinds -> {StoreOf(p)}
      [] p = "watering"   -> {"soil_moisture", "watering_events"}
      [] p = "camera"     -> {}

\* the attributes WateringEventPoller.__init__ sets on self
WateringAttrs ==
    {"_local_clock", "_poll_interval", "_closed", "_pump_manager",
     "_soil_moisture_store", "_watering_event_store"}

\* the attribute _poll_once reads to reach the watering event store
WateringInsertAttr == "watering_event_store"

\* number of parameters of make_sensor_pollers
MakeSensorPollersParams == 3
\* number of arguments main passes to make_sensor_pollers
MainCallArgs == 4

\* self._poll_interval: the poll interval (in seconds) poller p was
\* constructed with; pollers of different classes are given different
\* intervals
PollInterval(p) == IF p \in {"temperature", "moisture", "light"} THEN 1 ELSE 2

\* the pollers make_sensor_pollers appends to its list, in order
MakeSensorPollers == <<"temperature", "humidity", "moisture", "light">>

----------------------------------------------------------------------------
(* Collaborators: what they may return *)

\* readings a sensor returns
SensorValues == {0, 21}
\* volumes pump_if_needed returns (0: the pump did not run)
PumpVolumes == {0, 200}

\* Python's None, for a reading / a volume not (yet) there
NoValue == -1
\* Python's None, for get_latest() on an empty store
NoRecord == [timestamp |-> -1, value |-> -1]

Record(ts, v) == [timestamp |-> ts, value |-> v]

\* the soil_moisture rows an existing database file may already hold
InitialMoisture == {<<>>, <<Record(0, 21)>>, <<Record(0, 0)>>}

\* SoilMoistureStore.get_latest(): the most recently inserted row, or None
GetLatest(records) ==
    IF records = <<>> THEN NoRecord ELSE records[Len(records)]

\* a test on the moisture of the sample: false for a moisture of 0 as well
TruthyOfMoisture(r) == r # NoRecord /\ r.value # 0

\* a test that lets None through
TruthyAlways(r) == TRUE

\* Python truth value of what get_latest() returned (None is false, a
\* namedtuple of two fields is true)
Truthy(r) == r # NoRecord

----------------------------------------------------------------------------
(* Threads *)

Threads == 1..MaxThreads

\* A thread: pc and owner (the poller whose _poll it runs); the locals of
\* _poll_once (val: the sensor reading, latest: what get_latest() returned,
\* ml: ml_pumped; k: the number of the iteration, in the order in which
\* the iterations of the run begin); exc: the exception that ended it; and
\* what is recorded
\* of its run: ins, pumps (inserts and pump calls of the current
\* iteration), mid (close() was called during the current iteration), late
\* (the thread was started after close()), after (iterations it began after
\* close()), fin (iterations it completed after close(); dropped when the
\* thread leaves the loop).  What is recorded is dropped when the thread
\* ends.
Idle ==
    [pc |-> "none", owner |-> "none", val |-> NoValue,
     latest |-> NoRecord, ml |-> NoValue, k |-> 0, ins |-> 0, pumps |-> 0,
     mid |-> FALSE, late |-> FALSE, after |-> 0, fin |-> 0, exc |-> "none"]

\* thread t is inside _poll_once, past its first call
InBody(t) == thr[t].pc \in {"pump", "insert"}

\* iterations begun so far, or about to begin (their loop test has passed)
Budgeted == begun + Cardinality({t \in Threads : thr[t].pc = "read"})

\* the threads that call the stores
Callers == {"a", "b"}

\* call[c]: where caller c is in insert() (pc), on which store, with which
\* record (while the call is in flight), and which row of the table it wrote
\* (idx); no call of insert() made yet:
NoCall == [pc |-> "idle", store |-> "none", rec |-> NoRecord, idx |-> 0]

\* the DHT11 is not read: no result
NoReading == [error_code |-> 0, humidity |-> NoValue]

\* get_humidity_level() not called yet
NotRead == [called |-> FALSE, exc |-> "none", value |-> NoValue]

\* get_latest() not called yet
NotCalled == [called |-> FALSE, exc |-> "none", value |-> NoRecord]

\* _create_db on a new file, and the stores constructed on its connection
DbOpened ==
    /\ rows = [n \in Tables |-> <<>>]
    /\ durable = [n \in Tables |-> 0]
    /\ call = [c \in Callers |-> NoCall]
    /\ got = NotCalled

\* no DHT11 is read
SensorUnused ==
    /\ reading = NoReading
    /\ level = NotRead

\* the sets of pollers one run constructs: a direct caller (as the unit
\* tests do) constructs one of these
Scenarios ==
    {{"temperature"}, {"humidity"}, {"moisture"}, {"watering"},
     {"light", "camera"}}

\* the pollers a SensorPollerFactory has a create method for
FactoryKinds == SensorKinds \cup {"watering"}

\* SensorPollerFactory.__init__: the factory keeps a clock and a poll
\* interval (in seconds)
Factories == [local_clock : {"clock_a", "clock_b"}, poll_interval : {1, 2}]

\* create_<kind>_poller of factory f: the clock and the poll interval the
\* poller's constructor is called with
CreatePoller(f, kind) ==
    [kind |-> kind, local_clock |-> f.local_clock,
     poll_interval |-> f.poll_interval]

\* a construction that starts the polling thread of a poller
InitOfRunning(scenarios) ==
    /\ \/ mainPc = "init" /\ built = {}
       \/ mainPc = "unused" /\ built \in scenarios
    /\ closed = [p \in Kinds |-> FALSE]
    /\ \E p \in Kinds :
         thr = [t \in Threads |->
                  IF t = 1 /\ p \in built
                  THEN [Idle EXCEPT !.pc = "test", !.owner = p] ELSE Idle]
    /\ tables \in {[n \in Tables |-> IF n = "soil_moisture" THEN m ELSE <<>>] :
                     m \in IF "watering" \in built THEN InitialMoisture ELSE {<<>>}}
    /\ closes = [p \in Kinds |-> 0]
    /\ begun = 0
    /\ now = 0
    /\ DbOpened
    /\ SensorUnused

\* Either greenpithumb.main runs (and nothing is constructed before its call
\* of make_sensor_pollers), or a direct caller constructs pollers and calls
\* start_polling_async() and close() on them.
InitOf(scenarios) ==
    /\ \/ mainPc = "init" /\ built = {}
       \/ mainPc = "unused" /\ built \in scenarios
    /\ closed = [p \in Kinds |-> FALSE]
    /\ thr = [t \in Threads |-> Idle]
    /\ tables \in {[n \in Tables |-> IF n = "soil_moisture" THEN m ELSE <<>>] :
                     m \in IF "watering" \in built THEN InitialMoisture ELSE {<<>>}}
    /\ closes = [p \in Kinds |-> 0]
    /\ begun = 0
    /\ now = 0
    /\ DbOpened
    /\ SensorUnused

Init == InitOf(Scenarios)

----------------------------------------------------------------------------
(* SensorPollerBase *)

\* start_polling_async() as it would be if a poller could be started again:
\* the stop flag is cleared
StartPollingAsyncRestarts(p) ==
    /\ p \in built
    /\ \E t \in Threads :
        /\ thr[t].pc = "none"
        /\ \A u \in Threads : u < t => thr[u].pc # "none"
        /\ thr' = [thr EXCEPT ![t] =
                     [Idle EXCEPT !.pc = "test", !.owner = p, !.late = closed[p]]]
    /\ closed' = [closed EXCEPT ![p] = FALSE]
    /\ UNCHANGED <<built, tables, closes, begun, now, mainPc,
                 dbvars, dhtvars>>

\* start_polling_async(): a new thread whose target is _poll
StartPollingAsync(p) ==
    /\ p \in built
    /\ \E t \in Threads :
        /\ thr[t].pc = "none"
        /\ \A u \in Threads : u < t => thr[u].pc # "none"
        /\ thr' = [thr EXCEPT ![t] =
                     [Idle EXCEPT !.pc = "test", !.owner = p, !.late = closed[p]]]
    /\ UNCHANGED <<built, closed, tables, closes, begun, now, mainPc,
                 dbvars, dhtvars>>

\* a close() that flips the stop flag instead of setting it
CloseToggles(p) ==
    /\ p \in built
    /\ closed' = [closed EXCEPT ![p] = ~@]
    /\ thr' = [t \in Threads |->
                 IF thr[t].owner = p /\ InBody(t)
                 THEN [thr[t] EXCEPT !.mid = TRUE] ELSE thr[t]]
    /\ UNCHANGED <<built, tables, closes, begun, now, mainPc,
                 dbvars, dhtvars>>

\* a close() on a stop flag that all pollers share
CloseSharedFlag(p) ==
    /\ p \in built
    /\ closed' = [q \in Kinds |-> TRUE]
    /\ thr' = [t \in Threads |->
                 IF thr[t].owner = p /\ InBody(t)
                 THEN [thr[t] EXCEPT !.mid = TRUE] ELSE thr[t]]
    /\ UNCHANGED <<built, tables, closes, begun, now, mainPc, dbvars, dhtvars>>

\* close(): self._closed.set()
Close(p) ==
    /\ p \in built
    /\ closed' = [closed EXCEPT ![p] = TRUE]
    /\ thr' = [t \in Threads |->
                 IF thr[t].owner = p /\ InBody(t)
                 THEN [thr[t] EXCEPT !.mid = TRUE] ELSE thr[t]]
    /\ UNCHANGED <<built, tables, closes, begun, now, mainPc,
                 dbvars, dhtvars>>

\* a loop that never looks at the stop flag
LoopConditionIgnoresFlag(p) == TRUE

\* the loop condition of _poll: not self._closed.is_set()
LoopCondition(p) == ~closed[p]

\* a loop that tests the stop flag right after _poll_once(), before waiting
AfterPollOnceTestsFlag(p) == IF closed[p] THEN "cleanup" ELSE "wait"

\* a loop that goes back to its test without waiting
AfterPollOnceNoWait(p) == "test"

\* where _poll goes when _poll_once() has returned
AfterPollOnce(p) == "wait"

\* a loop that returns at once, without its cleanup, when it finds the stop
\* flag set
LoopTestReturnsWhenClosed(t) ==
    /\ thr[t].pc = "test"
    /\ LET p == thr[t].owner IN
        IF LoopCondition(p)
        THEN /\ Budgeted < MaxIters
             /\ thr' = [thr EXCEPT ![t].pc = "read"]
        ELSE thr' = [thr EXCEPT ![t] =
                       [Idle EXCEPT !.pc = "stopped", !.owner = p]]
    /\ UNCHANGED <<built, closed, tables, closes, begun, now, mainPc,
                 dbvars, dhtvars>>

\* _poll evaluates its while condition
LoopTest(t) ==
    /\ thr[t].pc = "test"
    /\ LET p == thr[t].owner IN
        IF LoopCondition(p)
        THEN /\ Budgeted < MaxIters
             /\ thr' = [thr EXCEPT ![t].pc = "read"]
        ELSE thr' = [thr EXCEPT ![t] = [@ EXCEPT !.pc = "cleanup", !.fin = 0]]
    /\ UNCHANGED <<built, closed, tables, closes, begun, now, mainPc,
                 dbvars, dhtvars>>

\* thread state s without the locals of _poll_once
NoLocals(s) ==
    [s EXCEPT !.val = NoValue, !.latest = NoRecord, !.ml = NoValue, !.k = 0]

\* thread state s as its _poll_once completes: one more iteration has
\* completed after the stop flag was set, if it is set
Completed(s) == [s EXCEPT !.fin = @ + (IF closed[s.owner] THEN 1 ELSE 0)]

\* thread state s as _poll_once returns: its locals are gone
Return(s) == Completed(NoLocals(s))

\* thread state s between two iterations
Between(s) == [NoLocals(s) EXCEPT !.ins = 0, !.pumps = 0, !.mid = FALSE]

\* the thread as _poll_once begins
Begin(t) ==
    [thr[t] EXCEPT !.after = @ + (IF closed[thr[t].owner] THEN 1 ELSE 0)]

\* thread state s when the thread has ended
Ended(s, pc, e) == [Idle EXCEPT !.pc = pc, !.owner = s.owner, !.exc = e]

\* an exception leaves _poll_once and _poll: the thread ends
Raise(s, e) == Ended(s, "dead", e)

\* self._local_clock.wait(self._poll_interval) returns: the poll interval
\* has passed
Wait(t) ==
    /\ thr[t].pc = "wait"
    /\ thr' = [thr EXCEPT ![t] = [Between(thr[t]) EXCEPT !.pc = "test"]]
    /\ now' = now + PollInterval(thr[t].owner)
    /\ UNCHANGED <<built, closed, tables, closes, begun, mainPc,
                 dbvars, dhtvars>>

\* a cleanup that leaves the stores open
CleanupLeavesStoresOpen(t) ==
    /\ thr[t].pc = "cleanup"
    /\ thr' = [thr EXCEPT ![t] = Ended(thr[t], "stopped", "none")]
    /\ UNCHANGED <<built, closed, tables, closes, begun, now, mainPc,
                 dbvars, dhtvars>>

\* self._close_db_stores(), then _poll returns
Cleanup(t) ==
    /\ thr[t].pc = "cleanup"
    /\ thr' = [thr EXCEPT ![t] = Ended(thr[t], "stopped", "none")]
    /\ closes' = [closes EXCEPT ![thr[t].owner] =
                    @ + (IF StoresOf(thr[t].owner) = {} THEN 0 ELSE 1)]
    /\ UNCHANGED <<built, closed, tables, begun, now, mainPc,
                 dbvars, dhtvars>>

----------------------------------------------------------------------------
(* The pollers' _poll_once *)

\* the sensor call of a sensor poller's _poll_once returns v
SensorRead(t, v) ==
    /\ thr[t].pc = "read"
    /\ thr[t].owner \in SensorKinds
    /\ thr' = [thr EXCEPT ![t] =
                 [Begin(t) EXCEPT !.pc = "insert", !.val = v, !.k = begun + 1]]
    /\ begun' = begun + 1
    /\ UNCHANGED <<built, closed, tables, closes, now, mainPc, dbvars, dhtvars>>

\* a failure that requests the stop of every poller
ReadFailStopsAll(t) ==
    /\ thr[t].pc = "read"
    /\ thr' = [thr EXCEPT ![t] =
                 Raise(Begin(t), IF thr[t].owner = "watering"
                                 THEN "StorageError" ELSE "SensorReadError")]
    /\ closed' = [p \in Kinds |-> closed[p] \/ p \in built]
    /\ begun' = begun + 1
    /\ UNCHANGED <<built, tables, closes, now, mainPc, dbvars, dhtvars>>

\* the first call of _poll_once (the sensor's, get_latest, save_photo) raises
ReadFail(t) ==
    /\ thr[t].pc = "read"
    /\ thr' = [thr EXCEPT ![t] =
                 Raise(Begin(t), IF thr[t].owner = "watering"
                                 THEN "StorageError" ELSE "SensorReadError")]
    /\ begun' = begun + 1
    /\ UNCHANGED <<built, closed, tables, closes, now, mainPc, dbvars, dhtvars>>

\* an insert that a stop request pre-empts
SensorInsertPreempted(t) ==
    /\ thr[t].pc = "insert"
    /\ thr[t].owner \in SensorKinds
    /\ LET p == thr[t].owner IN
        IF closed[p]
        THEN /\ thr' = [thr EXCEPT ![t] =
                          [Return(thr[t]) EXCEPT !.pc = AfterPollOnce(p)]]
             /\ UNCHANGED tables
        ELSE /\ tables' = [tables EXCEPT ![StoreOf(p)] =
                             Append(@, Record(now, thr[t].val))]
             /\ thr' = [thr EXCEPT ![t] =
                          [Return(thr[t]) EXCEPT !.pc = AfterPollOnce(p), !.ins = 1]]
    /\ UNCHANGED <<built, closed, closes, begun, now, mainPc,
                 dbvars, dhtvars>>

\* an insert that stores its record twice
SensorInsertTwice(t) ==
    /\ thr[t].pc = "insert"
    /\ thr[t].owner \in SensorKinds
    /\ LET p == thr[t].owner IN
        /\ tables' = [tables EXCEPT ![StoreOf(p)] =
                        Append(Append(@, Record(now, thr[t].val)),
                               Record(now, thr[t].val))]
        /\ thr' = [thr EXCEPT ![t] =
                     [Return(thr[t]) EXCEPT !.pc = AfterPollOnce(p), !.ins = 1]]
    /\ UNCHANGED <<built, closed, closes, begun, now, mainPc,
                 dbvars, dhtvars>>

\* store.insert(Record(self._local_clock.now(), value)) of a sensor poller
SensorInsert(t) ==
    /\ thr[t].pc = "insert"
    /\ thr[t].owner \in SensorKinds
    /\ LET p == thr[t].owner IN
        /\ tables' = [tables EXCEPT ![StoreOf(p)] =
                        Append(@, Record(now, thr[t].val))]
        /\ thr' = [thr EXCEPT ![t] =
                     [Return(thr[t]) EXCEPT !.pc = AfterPollOnce(p), !.ins = 1]]
    /\ UNCHANGED <<built, closed, closes, begun, now, mainPc,
                 dbvars, dhtvars>>

\* store.insert(...) raises
InsertFail(t) ==
    /\ thr[t].pc = "insert"
    /\ thr[t].owner \in SensorKinds
    /\ thr' = [thr EXCEPT ![t] = Raise(thr[t], "StorageError")]
    /\ UNCHANGED <<built, closed, tables, closes, begun, now, mainPc,
                 dbvars, dhtvars>>

\* WateringEventPoller._poll_once: soil_moisture = get_latest();
\* if soil_moisture: ...
WateringGetLatest(t) ==
    /\ thr[t].pc = "read"
    /\ thr[t].owner = "watering"
    /\ LET r == GetLatest(tables["soil_moisture"]) IN
        thr' = [thr EXCEPT ![t] =
                  IF Truthy(r)
                  THEN [Begin(t) EXCEPT !.latest = r, !.pc = "pump"]
                  ELSE [Return(Begin(t)) EXCEPT
                            !.pc = AfterPollOnce("watering")]]
    /\ begun' = begun + 1
    /\ UNCHANGED <<built, closed, tables, closes, now, mainPc, dbvars, dhtvars>>

\* a comparison that takes a volume of 0 for a run of the pump
PumpRanOrIdle(ml) == ml >= 0

\* the pump ran: ml_pumped > 0
PumpRan(ml) == ml > 0

\* ml_pumped = self._pump_manager.pump_if_needed(soil_moisture);
\* if ml_pumped > 0: ...
WateringPump(t, ml) ==
    /\ thr[t].pc = "pump"
    /\ thr' = [thr EXCEPT ![t] =
                 IF PumpRan(ml)
                 THEN [thr[t] EXCEPT !.ml = ml, !.pumps = @ + 1, !.pc = "insert"]
                 ELSE [Completed(thr[t]) EXCEPT !.ml = ml, !.latest = NoRecord,
                                     !.pumps = @ + 1,
                                     !.pc = AfterPollOnce("watering")]]
    /\ UNCHANGED <<built, closed, tables, closes, begun, now, mainPc,
                 dbvars, dhtvars>>

\* self.watering_event_store.insert(WateringEventRecord(now(), ml_pumped))
WateringInsert(t) ==
    /\ thr[t].pc = "insert"
    /\ thr[t].owner = "watering"
    /\ IF WateringInsertAttr \notin WateringAttrs
       THEN /\ thr' = [thr EXCEPT ![t] = Raise(thr[t], "AttributeError")]
            /\ UNCHANGED tables
       ELSE /\ tables' = [tables EXCEPT !["watering_events"] =
                            Append(@, Record(now, thr[t].ml))]
            /\ thr' = [thr EXCEPT ![t] =
                         [Return(thr[t]) EXCEPT !.pc = AfterPollOnce("watering"),
                                                !.ins = 1]]
    /\ UNCHANGED <<built, closed, closes, begun, now, mainPc,
                 dbvars, dhtvars>>

\* CameraPoller._poll_once: self._camera_manager.save_photo()
CameraSavePhoto(t) ==
    /\ thr[t].pc = "read"
    /\ thr[t].owner = "camera"
    /\ thr' = [thr EXCEPT ![t] =
                 [Return(Begin(t)) EXCEPT !.pc = AfterPollOnce("camera")]]
    /\ begun' = begun + 1
    /\ UNCHANGED <<built, closed, tables, closes, now, mainPc, dbvars, dhtvars>>

----------------------------------------------------------------------------
(* Entry point *)

\* main: pollers = make_sensor_pollers(args.poll_interval, wiring_config,
\*                                     record_queue, open_db_connection_func)
\* (a call with the wrong number of arguments raises TypeError before the
\* function body runs)
Main ==
    /\ mainPc = "init"
    /\ IF MainCallArgs = MakeSensorPollersParams
       THEN /\ mainPc' = "polling"
            /\ built' = {MakeSensorPollers[i] : i \in DOMAIN MakeSensorPollers}
       ELSE /\ mainPc' = "TypeError"
            /\ UNCHANGED built
    /\ UNCHANGED <<closed, thr, tables, closes, begun, now, dbvars, dhtvars>>

----------------------------------------------------------------------------
(* The database layer: db_store.py *)

\* the methods a store class defines (the same for the five classes)
StoreMethods == {"insert", "get"}

\* Python datetimes: s is the date and time to the second, us the
\* microsecond; an aware datetime has a tzinfo, of UTC offset off (in
\* minutes), a naive one has none
Datetimes ==
    {[s |-> 100, us |-> 0, aware |-> FALSE, off |-> 0],
     [s |-> 200, us |-> 928000, aware |-> TRUE, off |-> -240]}

\* Python numbers, as twice their value: the int n and the float h/2
PyInt(n) == [type |-> "int", twice |-> 2 * n]
PyFloat(h) == [type |-> "float", twice |-> h]

\* the values of the records given to insert(): 21, 21.5 and 21.0
DbValues == {PyInt(21), PyFloat(43), PyFloat(42)}

\* the records given to insert()
DbRecords == {Record(ts, v) : ts \in Datetimes, v \in DbValues}

\* a text, as its parts in order: "T" date and time to the second, "."
\* fraction of a second (microseconds), "+" UTC offset
Part(k, v) == [k |-> k, v |-> v]

\* a serialization that stops at the second (strftime without %f)
SerializeTimestampToSecond(timestamp) ==
    <<Part("T", timestamp.s)>>
    \o (IF timestamp.aware THEN <<Part("+", timestamp.off)>> ELSE <<>>)

\* _serialize_timestamp: timestamp.isoformat('T'), which writes the
\* fraction only when the microsecond is not 0 and the offset only for an
\* aware datetime
SerializeTimestamp(timestamp) ==
    <<Part("T", timestamp.s)>>
    \o (IF timestamp.us = 0 THEN <<>> ELSE <<Part(".", timestamp.us)>>)
    \o (IF timestamp.aware THEN <<Part("+", timestamp.off)>> ELSE <<>>)

\* the parts of kind k of a text
PartsOf(text, k) == {i \in DOMAIN text : text[i].k = k}

\* date_parser.parse(row[0]): what is not written is 0 (the fraction) or
\* absent (the offset)
ParseTimestamp(text) ==
    LET at(k) == text[CHOOSE i \in PartsOf(text, k) : TRUE].v IN
    [s     |-> at("T"),
     us    |-> IF PartsOf(text, ".") = {} THEN 0 ELSE at("."),
     aware |-> PartsOf(text, "+") # {},
     off   |-> IF PartsOf(text, "+") = {} THEN 0 ELSE at("+")]

\* the declared type of the value column of table n
ColumnType(n) == IF n = "soil_moisture" THEN "INTEGER" ELSE "REAL"

\* what SQLite stores for value v in the value column of table n (column
\* affinity): a REAL column holds a float; an INTEGER column holds an
\* integer when the value is a whole number and the value as it is otherwise
Stored(n, v) ==
    IF ColumnType(n) = "REAL" THEN PyFloat(v.twice)
    ELSE IF v.twice % 2 = 0 THEN [type |-> "int", twice |-> v.twice]
    ELSE v

\* Python ==, on datetimes (aware datetimes are equal when they are the
\* same instant), on numbers and on records
DatetimeEq(a, b) ==
    IF ~a.aware \/ ~b.aware
    THEN a = b
    ELSE a.s - 60 * a.off = b.s - 60 * b.off /\ a.us = b.us
NumberEq(a, b) == a.twice = b.twice
RecordEq(q, r) ==
    DatetimeEq(q.timestamp, r.timestamp) /\ NumberEq(q.value, r.value)

\* insert() calls made so far
Inserts ==
    Len(rows["temperature"]) + Len(rows["ambient_humidity"])
    + Len(rows["soil_moisture"]) + Len(rows["ambient_light"])
    + Len(rows["watering_events"])

\* store.get(): _do_get('SELECT * FROM <table>', <Record type>)
DoGet(n) ==
    [i \in DOMAIN rows[n] |->
       Record(ParseTimestamp(rows[n][i].ts), rows[n][i].val)]

\* store.insert(r), first statement of _do_insert:
\* self._cursor.execute(sql, (_serialize_timestamp(timestamp), value))
CursorExecute(c, n, r) ==
    /\ call[c].pc # "commit"
    /\ Inserts < MaxInserts
    /\ rows' = [rows EXCEPT ![n] =
                  Append(@, [ts  |-> SerializeTimestamp(r.timestamp),
                             val |-> Stored(n, r.value)])]
    /\ call' = [call EXCEPT ![c] =
                  [pc |-> "commit", store |-> n, rec |-> r,
                   idx |-> Len(rows[n]) + 1]]
    /\ UNCHANGED <<durable, got, pollvars, dhtvars>>

\* an insert that returns without committing
ConnectionCommitSkipped(c) ==
    /\ call[c].pc = "commit"
    /\ call' = [call EXCEPT ![c].pc = "returned", ![c].rec = NoRecord]
    /\ UNCHANGED <<rows, durable, got, pollvars, dhtvars>>

\* store.insert(r), second statement of _do_insert:
\* self._connection.commit(), which commits whatever has been executed on
\* the connection; then insert() returns
ConnectionCommit(c) ==
    /\ call[c].pc = "commit"
    /\ durable' = [n \in Tables |-> Len(rows[n])]
    /\ call' = [call EXCEPT ![c].pc = "returned", ![c].rec = NoRecord]
    /\ UNCHANGED <<rows, got, pollvars, dhtvars>>

\* self._soil_moisture_store.get_latest(), on a SoilMoistureStore
SoilMoistureGetLatest(c) ==
    /\ call[c].pc # "commit"
    /\ got' = IF "get_latest" \in StoreMethods
              THEN [called |-> TRUE, exc |-> "none",
                    value |-> GetLatest(DoGet("soil_moisture"))]
              ELSE [called |-> TRUE, exc |-> "AttributeError",
                    value |-> NoRecord]
    /\ UNCHANGED <<rows, durable, call, pollvars, dhtvars>>

----------------------------------------------------------------------------
(* HumiditySensor: humidity_sensor.py *)

\* the error codes a DHT11 result carries: 0 is a valid reading, 1 missing
\* data, 2 a wrong checksum; the other values are outside what the DHT11
\* module documents
ErrorCodes == -1..MaxErrorCode

\* relative humidity, in percent
Humidities == {10 * h : h \in 0..10}

\* what self._dht11.read() can return
Dht11Results == [error_code : ErrorCodes, humidity : Humidities]

\* a get_humidity_level() that has no branch for the codes out of range
GetHumidityLevelNoRangeCheck(dht11_result) ==
    LET error_code == dht11_result.error_code IN
    IF error_code = 1
    THEN [called |-> TRUE, exc |-> "MissingDataError", value |-> NoValue]
    ELSE IF error_code = 2
    THEN [called |-> TRUE, exc |-> "IncorrectCRCError", value |-> NoValue]
    ELSE [called |-> TRUE, exc |-> "none", value |-> dht11_result.humidity]

\* get_humidity_level() on the result of self._dht11.read(): what it raises
\* (exc) or returns (value)
GetHumidityLevel(dht11_result) ==
    LET error_code == dht11_result.error_code IN
    IF error_code # 0
    THEN IF error_code = 1
         THEN [called |-> TRUE, exc |-> "MissingDataError", value |-> NoValue]
         ELSE IF error_code = 2
         THEN [called |-> TRUE, exc |-> "IncorrectCRCError",
               value |-> NoValue]
         ELSE [called |-> TRUE, exc |-> "ValueError", value |-> NoValue]
    ELSE [called |-> TRUE, exc |-> "none", value |-> dht11_result.humidity]

\* a caller calls get_humidity_level()
HumidityLevelCall ==
    /\ reading # NoReading
    /\ ~level.called
    /\ level' = GetHumidityLevel(reading)
    /\ UNCHANGED <<reading, pollvars, dbvars>>

----------------------------------------------------------------------------

ThreadStep(t) ==
    \/ LoopTest(t)
    \/ \E v \in SensorValues : SensorRead(t, v)
    \/ ReadFail(t)
    \/ SensorInsert(t)
    \/ InsertFail(t)
    \/ WateringGetLatest(t)
    \/ \E ml \in PumpVolumes : WateringPump(t, ml)
    \/ WateringInsert(t)
    \/ CameraSavePhoto(t)
    \/ Wait(t)
    \/ Cleanup(t)

Next ==
    \/ \E p \in Kinds : StartPollingAsync(p)
    \/ \E p \in Kinds : Close(p)
    \/ \E t \in Threads : ThreadStep(t)
    \/ Main

Spec == Init /\ [][Next]_vars

\* Every polling thread is a thread of its own that the scheduler keeps
\* running: a step it can take is eventually taken.  Whether a thread ends
\* does not depend on the threads of other pollers, and the four sensor
\* pollers differ only in their sensor and store: the caller constructs one
\* poller (a sensor poller, the watering event poller or the camera poller)
\* and starts it any number of times.
LiveInit == InitOf({{"temperature"}, {"watering"}, {"camera"}})

LiveSpec ==
    LiveInit /\ [][Next]_vars /\ \A t \in Threads : WF_vars(ThreadStep(t))

\* The stores by themselves: no poller is constructed; two threads call
\* insert() on stores that share one connection to a new database, and
\* get_latest() on the soil moisture store.
DbInit ==
    /\ built = {} /\ mainPc = "unused"
    /\ closed = [p \in Kinds |-> FALSE]
    /\ thr = [t \in Threads |-> Idle]
    /\ tables = [n \in Tables |-> <<>>]
    /\ closes = [p \in Kinds |-> 0]
    /\ begun = 0 /\ now = 0
    /\ DbOpened
    /\ SensorUnused

DbNext ==
    \/ \E c \in Callers, n \in Tables, r \in DbRecords : CursorExecute(c, n, r)
    \/ \E c \in Callers : ConnectionCommit(c)
    \/ \E c \in Callers : SoilMoistureGetLatest(c)

DbSpec == DbInit /\ [][DbNext]_vars

\* The humidity sensor by itself: its DHT11 answers read() with any result,
\* and get_humidity_level() is called once.
SensorInit ==
    /\ built = {} /\ mainPc = "unused"
    /\ closed = [p \in Kinds |-> FALSE]
    /\ thr = [t \in Threads |-> Idle]
    /\ tables = [n \in Tables |-> <<>>]
    /\ closes = [p \in Kinds |-> 0]
    /\ begun = 0 /\ now = 0
    /\ DbOpened
    /\ reading \in Dht11Results
    /\ level = NotRead

SensorNext == HumidityLevelCall

SensorSpec == SensorInit /\ [][SensorNext]_vars

----------------------------------------------------------------------------
(* Properties *)

\* thread t has been started and has not ended
Live(t) == thr[t].pc \notin {"none", "stopped", "dead"}

\* the positions of a thread inside _poll_once
BodyPcs == {"read", "pump", "insert"}

\* thread t takes a step of _poll
Steps(t) == thr'[t].pc # thr[t].pc

\* C1: a sensor read or store insert that fails during an iteration does
\* not terminate the polling loop: every step a thread takes inside
\* _poll_once leads on in the iteration or to the wait that precedes the
\* next iteration.
C1_FailureIsNotFatal ==
    [][\A t \in Threads :
         thr[t].pc \in BodyPcs /\ Steps(t) => thr'[t].pc \in BodyPcs \cup {"wait"}]_vars

\* C2: a WateringEventPoller iteration in which a latest sample exists and
\* pump_if_needed returned a volume > 0 inserts exactly one
\* WateringEventRecord(now(), volume) before it ends.
C2_WateringEventInserted ==
    [][\A t \in Threads :
         thr[t].owner = "watering" /\ thr[t].pc = "insert" /\ Steps(t)
         => /\ tables'["watering_events"] =
                 Append(tables["watering_events"], Record(now, thr[t].ml))
            /\ thr'[t].pc = "wait" /\ thr'[t].ins = 1]_vars

\* C3: a WateringEventPoller iteration in which pump_if_needed returns 0
\* inserts no WateringEventRecord (no table changes) and goes on to the
\* wait of the poll interval.
C3_NoEventWhenPumpIdle ==
    [][\A t \in Threads :
         thr[t].pc = "pump" /\ Steps(t) /\ thr'[t].ml = 0
         => /\ thr'[t].pc = "wait"
            /\ thr'[t].ins = 0
            /\ tables' = tables]_vars

\* C3 witness: an iteration in which the pump was called and returned 0
\* has reached the wait.
C3_Witness ==
    \E t \in Threads :
        /\ thr[t].owner = "watering" /\ thr[t].pc = "wait"
        /\ thr[t].pumps = 1 /\ thr[t].ml = 0 /\ thr[t].ins = 0

\* C4: a WateringEventPoller iteration in which get_latest() returns None
\* does not call pump_if_needed and inserts nothing; it goes on to the wait
\* (the poller keeps polling).
C4_NoSampleNoPump ==
    [][\A t \in Threads :
         /\ thr[t].owner = "watering" /\ thr[t].pc = "read" /\ Steps(t)
         /\ GetLatest(tables["soil_moisture"]) = NoRecord
         /\ thr'[t].pc # "dead"
         => /\ thr'[t].pc = "wait"
            /\ thr'[t].pumps = 0 /\ thr'[t].ins = 0
            /\ tables' = tables]_vars

\* C4 witness: with an empty soil moisture store an iteration has reached the
\* wait without a pump call.
C4_Witness ==
    \E t \in Threads :
        /\ thr[t].owner = "watering" /\ thr[t].pc = "wait"
        /\ tables["soil_moisture"] = <<>>
        /\ thr[t].pumps = 0 /\ thr[t].ins = 0

\* C5: the pollers the entry point constructs and starts include the one
\* that feeds soil moisture to the pump: once main is past its call of
\* make_sensor_pollers, a watering event poller is constructed.
C5_EntryPointBuildsWateringPoller ==
    mainPc \in {"polling", "TypeError"} => "watering" \in built

\* C6: stop is not pre-emptive.  close() itself moves no thread and changes
\* no table; an insert that is due when close() has been called is carried
\* out like any other (the record is appended and the iteration ends at the
\* wait, unless the store itself raises); so an iteration during which
\* close() was called reaches the wait with its record inserted.
C6_StopIsNotPreemptive ==
    /\ [][/\ closed' # closed =>
               /\ tables' = tables
               /\ \A t \in Threads :
                    /\ thr'[t].pc = thr[t].pc
                    /\ thr'[t].val = thr[t].val
                    /\ thr'[t].ins = thr[t].ins
          /\ \A t \in Threads :
               /\ thr[t].owner \in SensorKinds /\ thr[t].pc = "insert" /\ Steps(t)
               /\ closed[thr[t].owner]
               => \/ /\ tables'[StoreOf(thr[t].owner)] =
                          Append(tables[StoreOf(thr[t].owner)],
                                 Record(now, thr[t].val))
                     /\ thr'[t].pc = "wait" /\ thr'[t].ins = 1
                  \/ thr'[t].pc = "dead" /\ thr'[t].exc = "StorageError"]_vars
    /\ [](\A t \in Threads :
            thr[t].owner \in SensorKinds /\ thr[t].pc = "wait" /\ thr[t].mid
            => thr[t].ins = 1)

\* C6 witness: close() was called between the sensor read and the insert of
\* an iteration, and the iteration has ended with its record inserted.
C6_Witness ==
    \E t \in Threads :
        /\ thr[t].owner \in SensorKinds /\ thr[t].pc = "wait"
        /\ thr[t].mid /\ closed[thr[t].owner] /\ thr[t].ins = 1
        /\ tables[StoreOf(thr[t].owner)] # <<>>

\* C7 as stated: in every interleaving, no iteration (_poll_once) begins
\* after close() has set the stop flag.
C7_NoIterationBeginsAfterClose ==
    [][\A t \in Threads :
         thr[t].pc = "read" /\ Steps(t) => ~closed[thr[t].owner]]_vars

\* C7 amended: a polling thread that tests the stop flag after close() has
\* set it begins no iteration (it goes to cleanup and on to the end, and the
\* flag is never cleared); an iteration whose loop test came before close()
\* may begin after it, so a thread begins at most one iteration after
\* close().
C7_NoIterationAfterTestedStop ==
    /\ [][\A t \in Threads :
            /\ thr[t].pc = "test" /\ closed[thr[t].owner] /\ Steps(t)
               => thr'[t].pc = "cleanup"
            /\ thr[t].pc = "cleanup" /\ Steps(t) => thr'[t].pc = "stopped"
            /\ thr[t].pc \in {"stopped", "dead"} => thr'[t].pc = thr[t].pc]_vars
    /\ [][\A p \in Kinds : closed[p] => closed'[p]]_vars
    /\ [](\A t \in Threads : thr[t].after <= 1)

\* C7 witness: an iteration has begun after close() (its loop test came
\* before).
C7_Witness ==
    \E t \in Threads :
        /\ thr[t].pc \in {"insert", "pump", "wait"}
        /\ thr[t].after = 1 /\ closed[thr[t].owner]

C9_ShutdownIsLive ==
    /\ <>[](\A t \in Threads : ~(Live(t) /\ closed[thr[t].owner]))
    /\ [](\A t \in Threads :
            thr[t].pc = "stopped" /\ thr[t].owner # "camera"
            => closes[thr[t].owner] >= 1)
    /\ [][\A t \in Threads :
            thr[t].pc = "stopped" => thr'[t].pc = "stopped"]_vars

\* C9 witness: after close() a polling thread that ran an iteration has
\* ended in Stopped with its store handles closed.
C9_Witness ==
    \E t \in Threads :
        /\ thr[t].pc = "stopped" /\ closed[thr[t].owner]
        /\ closes[thr[t].owner] = 1 /\ begun >= 1

\* C10: a poller is not restartable: a thread started by
\* start_polling_async() after close() finds the flag set and performs no
\* iteration: it is only ever at the loop test or at cleanup, with no sensor
\* read, insert or wait.
C10_NotRestartable ==
    \A t \in Threads :
        thr[t].late =>
            /\ closed[thr[t].owner]
            /\ thr[t].pc \in {"test", "cleanup"}
            /\ thr[t].after = 0 /\ thr[t].ins = 0 /\ thr[t].pumps = 0

\* C10 witness: a thread started after close() has left the loop without an
\* iteration.
C10_Witness ==
    \E t \in Threads : thr[t].late /\ thr[t].pc = "cleanup" /\ begun = 0

\* C11: double-start fails fast: start_polling_async() on a poller that is
\* already running raises and creates no second polling loop, so a poller
\* never has two polling threads running at once.
C11_DoubleStartFailsFast ==
    \A p \in Kinds : Cardinality({t \in Threads : Live(t) /\ thr[t].owner = p}) <= 1

\* C12: stop is idempotent: close() on a poller whose stop flag is already
\* set (stop-requested or stopped) does not raise and changes nothing of the
\* program: the flag stays set, no thread moves, ends or loses a local, and
\* no table and no store handle changes.
C12_StopIsIdempotent ==
    [][\A p \in Kinds :
         Close(p) /\ closed[p]
         => /\ closed' = closed /\ built' = built
            /\ tables' = tables /\ closes' = closes /\ now' = now
            /\ \A t \in Threads :
                 /\ thr'[t].pc = thr[t].pc /\ thr'[t].exc = thr[t].exc
                 /\ thr'[t].owner = thr[t].owner
                 /\ thr'[t].val = thr[t].val /\ thr'[t].ml = thr[t].ml
                 /\ thr'[t].latest = thr[t].latest]_vars

\* C12 witness: close() was called again during an iteration that began
\* with the stop flag already set.
C12_Witness ==
    \E t \in Threads :
        thr[t].after = 1 /\ thr[t].mid /\ closed[thr[t].owner] /\ InBody(t)

\* C13: in every polling loop each completed iteration (_poll_once returned)
\* is followed by exactly one call of clock.wait(d), d the poll interval the
\* poller was constructed with, made after the work of the iteration; the
\* wait is made only then, and an iteration begins only from the loop test,
\* which is reached only from the start of the thread or from a wait: no two
\* iterations of the loop without a wait(d) between them.
C13_OneWaitPerIteration ==
    [][/\ \A t \in Threads :
            /\ thr[t].pc \in BodyPcs /\ Steps(t)
               /\ thr'[t].pc \notin BodyPcs \cup {"dead"}
               => thr'[t].pc = "wait"
            /\ thr[t].pc = "wait" /\ Steps(t)
               => /\ thr'[t].pc = "test"
                  /\ now' = now + PollInterval(thr[t].owner)
            /\ thr'[t].pc = "wait" /\ Steps(t) => thr[t].pc \in BodyPcs
            /\ thr'[t].pc = "read" /\ Steps(t) => thr[t].pc = "test"
            /\ thr'[t].pc = "test" /\ Steps(t) => thr[t].pc \in {"none", "wait"}
       /\ now' # now => \E t \in Threads : thr[t].pc = "wait" /\ Steps(t)]_vars

\* C13 witness: a poller constructed with a poll interval of 2 is about to
\* begin its second iteration, one wait(2) after its first.
C13_Witness ==
    \E t \in Threads :
        /\ thr[t].pc = "read" /\ begun = 1
        /\ PollInterval(thr[t].owner) = 2 /\ now = 2

C15_NoCascadingFailure ==
    /\ [][\A t \in Threads :
            Steps(t) /\ thr'[t].pc = "dead"
            => /\ \A u \in Threads \ {t} : thr'[u] = thr[u]
               /\ closed' = closed /\ built' = built
               /\ tables' = tables /\ closes' = closes /\ now' = now]_vars
    /\ [](\A t, u \in Threads :
            /\ thr[u].pc = "dead" /\ Live(t) /\ thr[t].owner # thr[u].owner
            /\ ~(thr[t].pc = "test" /\ Budgeted >= MaxIters)
            => ENABLED ThreadStep(t))

\* C15 witness: the sensor of one poller has failed in the only iteration
\* begun so far, and the thread of another poller has passed its loop test
\* and is about to run an iteration.
C15_Witness ==
    \E t, u \in Threads :
        /\ thr[u].pc = "dead" /\ thr[u].exc = "SensorReadError"
        /\ thr[t].owner # thr[u].owner
        /\ thr[t].pc = "read" /\ begun = 1 /\ ~closed[thr[t].owner]

C17_GetLatestReturnsLastInserted ==
    [][got' # got
       => /\ got'.exc = "none"
          /\ got'.value = GetLatest(DoGet("soil_moisture"))]_vars

\* C18: round trip: once insert(r) has executed on a store, get() on that
\* store holds, at the place of the row the call wrote, a record equal to r
\* in timestamp (the ISO 8601 text parsed back is the same instant, to the
\* microsecond) and in value; and it still does when insert() returns.
C18_RoundTrip ==
    /\ [](\A c \in Callers :
            call[c].pc = "commit"
            => /\ call[c].idx \in DOMAIN DoGet(call[c].store)
               /\ RecordEq(DoGet(call[c].store)[call[c].idx], call[c].rec))
    /\ [][\A c \in Callers :
            call[c].pc = "commit" /\ call'[c].pc = "returned"
            => RecordEq(DoGet(call[c].store)'[call[c].idx], call[c].rec)]_vars

\* C18 witness: an insert() of a record with an aware timestamp that has
\* microseconds and an integer value has returned, and get() holds it.
C18_Witness ==
    \E c \in Callers :
        /\ call[c].pc = "returned"
        /\ LET q == DoGet(call[c].store)[call[c].idx] IN
             /\ q.timestamp.aware /\ q.timestamp.us # 0 /\ q.timestamp.off # 0
             /\ q.value = PyInt(21)

\* C19: each store is an append-only log: the execute of insert(r) on a
\* store adds one record, equal to r, at the end of what get() of that store
\* returns, and leaves the records before it and what get() of every other
\* store returns as they were; no other step changes what any get() returns
\* (get() returns all records of its kind in insertion order); and the
\* record is committed before insert() returns, and stays committed.
C19_AppendOnlyLog ==
    /\ [][/\ \A c \in Callers, n \in Tables :
               call[c].pc # "commit" /\ call'[c].pc = "commit"
               /\ call'[c].store = n
               =>   /\ Len(DoGet(n)') = Len(DoGet(n)) + 1
                    /\ \A i \in DOMAIN DoGet(n) : DoGet(n)'[i] = DoGet(n)[i]
                    /\ RecordEq(DoGet(n)'[Len(DoGet(n)')], call'[c].rec)
                    /\ \A m \in Tables \ {n} : DoGet(m)' = DoGet(m)
          /\ (\A c \in Callers : ~(call[c].pc # "commit" /\ call'[c].pc = "commit"))
             => \A m \in Tables : DoGet(m)' = DoGet(m)
          /\ \A c \in Callers :
               call[c].pc = "commit" /\ call'[c].pc = "returned"
               => durable'[call[c].store] >= call[c].idx
          /\ \A m \in Tables : durable'[m] >= durable[m]]_vars
    /\ [](\A c \in Callers :
            call[c].pc = "returned" => durable[call[c].store] >= call[c].idx)

\* C19 witness: two inserts of different records on the temperature store
\* have returned; get() holds the two records in the order of the inserts,
\* both committed, and the other tables are empty.
C19_Witness ==
    /\ Len(DoGet("temperature")) = 2 /\ durable["temperature"] = 2
    /\ DoGet("temperature")[1] # DoGet("temperature")[2]
    /\ \A c \in Callers : call[c].pc = "returned" /\ call[c].store = "temperature"
    /\ \A m \in Tables \ {"temperature"} : DoGet(m) = <<>>

\* C20: within the stream of one poller the records are inserted in the
\* order in which their samples were taken (the k-th record inserted comes
\* from the k-th iteration): a record is never inserted while a sample the
\* poller took earlier still waits for its insert; and the timestamps of the
\* records of a table never decrease from one row to the next.
C20_InsertionFollowsSampling ==
    /\ [][\A t \in Threads :
            /\ thr[t].owner \in SensorKinds /\ thr[t].pc = "insert"
            /\ Steps(t) /\ thr'[t].pc = "wait"
            => \A u \in Threads \ {t} :
                 thr[u].owner = thr[t].owner /\ thr[u].pc = "insert"
                 => thr[u].k > thr[t].k]_vars
    /\ [](\A n \in Tables : \A i, j \in DOMAIN tables[n] :
            i < j => tables[n][i].timestamp <= tables[n][j].timestamp)

\* C21: get_humidity_level() returns the humidity of the DHT11 result if and
\* only if the result's error code is 0; error code 1 raises
\* MissingDataError, error code 2 IncorrectCRCError, every other nonzero
\* error code ValueError; no humidity is returned for a nonzero error code.
C21_HumidityOnlyOnValidReading ==
    level.called =>
        /\ (level.exc = "none") <=> (reading.error_code = 0)
        /\ reading.error_code = 0 => level.value = reading.humidity
        /\ reading.error_code = 1 => level.exc = "MissingDataError"
        /\ reading.error_code = 2 => level.exc = "IncorrectCRCError"
        /\ reading.error_code \notin {0, 1, 2} => level.exc = "ValueError"
        /\ reading.error_code # 0 => level.value = NoValue

\* an error code out of range has ended the call with ValueError
C21_Witness ==
    /\ level.called
    /\ reading.error_code = 3
    /\ reading.humidity = 50
    /\ level.exc = "ValueError"
    /\ level.value = NoValue


\* C22: when the loop of a started poller observes the stop flag, it goes
\* to its cleanup, which closes every store of that poller exactly once
\* (the watering event poller both of its stores, the camera poller none)
\* and no store of another poller, and only then is the thread stopped;
\* nothing else closes a store.
C22_LoopClosesEachStoreOnce ==
    [][/\ \A t \in Threads :
            LET p == thr[t].owner IN
            /\ thr[t].pc = "test" /\ closed[p] /\ Steps(t)
                   => thr'[t].pc = "cleanup"
            /\ thr[t].pc = "cleanup" /\ Steps(t)
                   => /\ thr'[t].pc = "stopped"
                      /\ \A q \in Kinds :
                           closes'[q] = closes[q] +
                               (IF q = p /\ StoresOf(q) # {} THEN 1 ELSE 0)
            /\ thr[t].pc # "stopped" /\ thr'[t].pc = "stopped"
                   => thr[t].pc = "cleanup"
       /\ closes' # closes
              => \E t \in Threads : thr[t].pc = "cleanup" /\ Steps(t)
      ]_vars

\* the thread of a watering event poller has run an iteration, observed the
\* stop flag and stopped, its two stores closed once
C22_Witness ==
    \E t \in Threads :
        /\ thr[t].owner = "watering" /\ thr[t].pc = "stopped"
        /\ StoresOf("watering") = {"soil_moisture", "watering_events"}
        /\ closed["watering"] /\ closes["watering"] = 1 /\ begun >= 1
        /\ \A u \in Threads \ {t} : thr[u].pc = "none"

\* C23: the stop signal is per poller: a close() that sets the stop flag of
\* one poller changes no other poller's stop flag, no thread of another
\* poller, no store, and neither the clock nor the set of pollers; and a
\* thread whose own poller's flag is not set passes its loop test into the
\* next iteration, whatever the flags of the other pollers are.
C23_StopSignalIsPerPoller ==
    [][/\ \A p \in Kinds :
            closed'[p] # closed[p] =>
                /\ closed'[p]
                /\ \A q \in Kinds \ {p} : closed'[q] = closed[q]
                /\ \A t \in Threads : thr[t].owner # p => thr'[t] = thr[t]
                /\ UNCHANGED <<built, tables, closes, begun, now>>
       /\ \A t \in Threads :
            thr[t].pc = "test" /\ Steps(t) /\ ~closed[thr[t].owner]
                => thr'[t].pc = "read"
      ]_vars

\* the light poller was closed before any thread was started; the camera
\* poller, started after that, has completed an iteration and its flag is
\* not set
C23_Witness ==
    /\ thr[1].owner = "light" /\ thr[1].late /\ closed["light"]
    /\ thr[2].owner = "camera" /\ thr[2].pc = "wait"
    /\ ~closed["camera"]

\* C24: a poller is created not running: when the pollers are constructed no
\* thread exists, no iteration has begun, the clock has not been waited on
\* and nothing was inserted or closed, and this stays so as long as no
\* thread was started; a thread comes into being only by a call of
\* start_polling_async() on a constructed poller, at its loop test; and a
\* poller created by a factory has the factory's clock and poll interval.
C24_CreatedNotRunning ==
    /\ \A t \in Threads : thr[t].pc = "none"
    /\ []((\A t \in Threads : thr[t].pc = "none") =>
             /\ begun = 0 /\ now = 0
             /\ closes = [p \in Kinds |-> 0]
             /\ tables["soil_moisture"] \in InitialMoisture
             /\ \A n \in Tables \ {"soil_moisture"} : tables[n] = <<>>)
    /\ [][\A t \in Threads :
            thr[t].pc = "none" /\ thr'[t].pc # "none" =>
                /\ \E p \in built :
                     thr'[t] = [Idle EXCEPT !.pc = "test", !.owner = p,
                                            !.late = closed[p]]
                /\ UNCHANGED <<built, closed, tables, closes, begun, now>>
         ]_vars
    /\ \A f \in Factories, kind \in FactoryKinds :
         /\ CreatePoller(f, kind).kind = kind
         /\ CreatePoller(f, kind).local_clock = f.local_clock
         /\ CreatePoller(f, kind).poll_interval = f.poll_interval

\* a constructed temperature poller was started and its thread is about to
\* begin the first iteration: until now nothing was read, inserted or waited
\* for
C24_Witness ==
    /\ "temperature" \in built
    /\ thr[1].owner = "temperature" /\ thr[1].pc = "read"
    /\ thr[2].pc = "none"
    /\ begun = 0 /\ now = 0 /\ tables["temperature"] = <<>>

\* C25: after any sequence of start_polling_async() and close() calls on one
\* poller (repeated starts included), no insert into and no read from a
\* store of that poller is performed once the poller has closed it: no
\* thread of a sensor poller calls insert(), and no thread of the watering
\* event poller calls get_latest(), after a cleanup of that poller.
C25_NoStoreUseAfterClose ==
    [][\A t \in Threads :
         LET p == thr[t].owner IN
         p \in Kinds /\ closes[p] > 0 =>
             /\ ~(p \in SensorKinds /\ thr[t].pc = "insert" /\ Steps(t))
             /\ ~(p = "watering" /\ thr[t].pc = "read" /\ Steps(t))
      ]_vars

\* C26: for a poller started once, the number of _poll_once executions that
\* complete after the stop flag was set is 0 or 1, never more, and such an
\* iteration inserts at most one record.
C26_AtMostOneIterationAfterClose ==
    \A p \in Kinds :
        Cardinality({t \in Threads : thr[t].owner = p}) = 1 =>
            \A t \in Threads :
                thr[t].owner = p =>
                    /\ thr[t].fin <= 1
                    /\ thr[t].fin = 1 => thr[t].ins <= 1

\* the only thread of a temperature poller has completed an iteration after
\* close(), inserted its record, waited, and is at the loop test that ends
\* the loop
C26_Witness ==
    /\ thr[1].owner = "temperature" /\ thr[2].pc = "none"
    /\ thr[1].pc = "test" /\ thr[1].fin = 1
    /\ closed["temperature"] /\ Len(tables["temperature"]) = 1

\* C27: if close() is called on a poller before start_polling_async(), the
\* thread that the start creates performs zero iterations (no sensor read,
\* no insert, no wait): its only steps are from the loop test to the cleanup
\* and from the cleanup, which closes the stores of the poller, to its end;
\* and under fair scheduling it takes them: it terminates (from some point
\* on no thread that was started after close() is still running).
C27_CloseBeforeStart ==
    /\ [](\A t \in Threads :
            thr[t].late =>
                /\ thr[t].pc \in {"test", "cleanup"}
                /\ thr[t].val = NoValue /\ thr[t].latest = NoRecord
                /\ thr[t].fin = 0)
    /\ [][\A t \in Threads :
            thr[t].late /\ Steps(t) =>
                LET p == thr[t].owner IN
                /\ UNCHANGED <<tables, begun, now>>
                /\ \/ /\ thr[t].pc = "test" /\ thr'[t].pc = "cleanup"
                      /\ closes' = closes
                   \/ /\ thr[t].pc = "cleanup" /\ thr'[t].pc = "stopped"
                      /\ closes' = [closes EXCEPT ![p] =
                                      @ + (IF StoresOf(p) = {} THEN 0 ELSE 1)]
         ]_vars
    /\ <>[](\A t \in Threads : ~thr[t].late)

\* the watering event poller was closed and then started: its thread has
\* left the loop at the first test, with nothing read, inserted or waited
\* for, and is about to close the two stores
C27_Witness ==
    /\ thr[1].owner = "watering" /\ thr[1].late /\ thr[1].pc = "cleanup"
    /\ thr[2].pc = "none"
    /\ closes["watering"] = 0 /\ begun = 0 /\ now = 0
    /\ tables["watering_events"] = <<>>

====
